---- MODULE Spec2Model ----
(***************************************************************************)
(* Model of src/server.py: a Flask application that stores an uploaded     *)
(* image, runs `ollama run <model> <prompt>` on it, records the result in  *)
(* SQLite (tables interactions and chat_messages) and serves follow-up     *)
(* chat turns, result lists and usage statistics.                          *)
(*                                                                         *)
(* Conventions                                                             *)
(*  - Python str values are sequences of one-character strings.            *)
(*  - An optional value (a form field, a fetched row, an SQL NULL) is the  *)
(*    empty sequence when absent and a one-element sequence when present.  *)
(*  - Money is an integer number of 10^-8 USD: MODEL_COSTS holds prices in *)
(*    10^-5 USD per 1000 tokens, so (tokens / 1000) * price is             *)
(*    tokens * price units.  Float rounding is not modelled.               *)
(*  - Time is a monotone clock counted in ticks of 1/TicksPerSecond s;     *)
(*    strftime('%H%M%S') and SQLite's CURRENT_TIMESTAMP both truncate it   *)
(*    to whole seconds.                                                    *)
(*  - Every request is served by one of the threads in Procs; a handler is *)
(*    cut into steps at the points where it blocks (the subprocess call)   *)
(*    or talks to SQLite one statement at a time.                          *)
(***************************************************************************)
EXTENDS Integers, Sequences, FiniteSets, TLC

VARIABLES
    now,            \* wall clock, in ticks
    files,          \* the uploads/ directory: filename -> bytes
    interactions,   \* committed rows of table interactions, in rowid order
    chat_messages,  \* committed rows of table chat_messages, in rowid order
    db_lock,        \* thread holding SQLite's write lock, or NoThread
    pc,             \* per thread: position inside its view function
    handler,        \* per thread: the view function being run
    args,           \* per thread: the request's inputs
    locals,         \* per thread: the view function's local variables
    tx,             \* per thread: rows inserted by its open transaction
    response,       \* the request answered by the last step and its response
    dispatched,     \* history: number of upload, chat and stats requests accepted
    reported,       \* history: the last statistics answered, where logged
    turns           \* history: chat turns answered with success, in order

vars == <<now, files, interactions, chat_messages, db_lock, pc, handler,
          args, locals, tx, response, dispatched, reported, turns>>

----------------------------------------------------------------------------
(* Bounds of the model *)

MaxRequests == 3
MaxClock == 2

Procs == {"t1", "t2"}
ThreadNo(p) == IF p = "t1" THEN 1 ELSE 2
NoThread == "none"

----------------------------------------------------------------------------
(* Strings *)

Str_describe == <<"d","e","s","c","r","i","b","e"," ","t","h","i","s"," ",
                  "i","m","a","g","e">>
GROUNDING == <<"<","|","g","r","o","u","n","d","i","n","g","|",">">>
DEFAULT_INTENT == <<"O","C","R"," ","t","h","i","s"," ","i","m","a","g","e",".">>
DEFAULT_MODEL == "deepseek-ocr"
UPLOAD_FOLDER == <<"u","p","l","o","a","d","s">>

UpperCase == <<"A","B","C","D","E","F","G","H","I","J","K","L","M",
               "N","O","P","Q","R","S","T","U","V","W","X","Y","Z">>
LowerCase == <<"a","b","c","d","e","f","g","h","i","j","k","l","m",
               "n","o","p","q","r","s","t","u","v","w","x","y","z">>
Whitespace == {" ", "\n", "\t", "\r"}
Digit == <<"0","1","2","3","4","5","6","7","8","9">>

\* str.lower() on one character
LowerChar(c) ==
    IF \E i \in 1..26 : UpperCase[i] = c
    THEN LowerCase[CHOOSE i \in 1..26 : UpperCase[i] = c]
    ELSE c

\* str.lower()
Lower(s) == [i \in 1..Len(s) |-> LowerChar(s[i])]

\* str.startswith(prefix)
StartsWith(s, prefix) ==
    /\ Len(s) >= Len(prefix)
    /\ SubSeq(s, 1, Len(prefix)) = prefix

RECURSIVE LStrip(_)
LStrip(s) ==
    IF s # <<>> /\ Head(s) \in Whitespace THEN LStrip(Tail(s)) ELSE s

RECURSIVE RStrip(_)
RStrip(s) ==
    IF s # <<>> /\ s[Len(s)] \in Whitespace
    THEN RStrip(SubSeq(s, 1, Len(s) - 1))
    ELSE s

\* Strip that strips nothing
Strip_nothing(s) == s

\* str.strip()
Strip(s) == RStrip(LStrip(s))

\* GetOr without the default: dict.get(key, '')
GetOr_empty(field, default) == IF field = <<>> THEN <<>> ELSE field[1]

\* dict.get(key, default) on an optional field
GetOr(field, default) == IF field = <<>> THEN default ELSE field[1]

----------------------------------------------------------------------------
(* Clock conversions *)

\* clock ticks per second: the sub-second resolution of datetime.now()
TicksPerSecond == 2

\* whole seconds of a clock reading
Seconds(t) == t \div TicksPerSecond

\* datetime.now().strftime('%Y%m%d_%H%M%S'): truncates to the second; the
\* fields above the seconds are constant over the window modelled
Strftime(t) == <<Digit[((Seconds(t) \div 10) % 10) + 1],
                 Digit[(Seconds(t) % 10) + 1]>>

\* SQLite CURRENT_TIMESTAMP, 'YYYY-MM-DD HH:MM:SS': truncates to the second
CURRENT_TIMESTAMP(t) == Seconds(t)

----------------------------------------------------------------------------
(* Usage estimator *)

MODEL_COSTS ==
    [m \in {"deepseek-ocr", "llava", "moondream"} |->
        IF m = "moondream" THEN [input |-> 5, output |-> 5]
                           ELSE [input |-> 10, output |-> 10]]

estimate_tokens(text) == Len(text) \div 4

\* calculate_cost without the fallback of MODEL_COSTS.get: an unknown model
\* costs nothing
calculate_cost_nofallback(input_tokens, output_tokens, model) ==
    IF model \in DOMAIN MODEL_COSTS
    THEN input_tokens * MODEL_COSTS[model].input
         + output_tokens * MODEL_COSTS[model].output
    ELSE 0

calculate_cost(input_tokens, output_tokens, model) ==
    LET costs == IF model \in DOMAIN MODEL_COSTS
                 THEN MODEL_COSTS[model]
                 ELSE MODEL_COSTS["deepseek-ocr"]
    IN  input_tokens * costs.input + output_tokens * costs.output

----------------------------------------------------------------------------
(* SQLite *)

\* The rows a transaction sees of a table: committed rows, then its own.
Visible(table, pending) == table \o pending

\* NextId counting the committed rows only
NextId_committed(table, pending) == Len(table) + 1

\* INTEGER PRIMARY KEY AUTOINCREMENT: one more than the largest rowid used
NextId(table, pending) == Len(Visible(table, pending)) + 1

\* ExecInsert on a connection opened with isolation_level=None: every
\* statement commits at once
ExecInsert_autocommit(table, pending, row) ==
    [table |-> Append(table, row), pending |-> pending]

\* cursor.execute('INSERT ...') on a connection in sqlite3's default
\* (deferred) isolation level: the row joins the connection's open
\* transaction and is not committed.
ExecInsert(table, pending, row) ==
    [table |-> table, pending |-> Append(pending, row)]

\* CommitRows putting the new rows first
CommitRows_front(table, pending) == pending \o table

\* conn.commit(): the open transaction's rows become committed
CommitRows(table, pending) == table \o pending

\* RollbackRows with the except branch committing instead
RollbackRows_commit(table, pending) == table \o pending

\* conn.rollback() in get_db's except branch: the rows are discarded
RollbackRows(table, pending) == table

\* the thread holding the write lock once `p` has run a statement
LockAfter(p, pending) == IF pending = <<>> THEN NoThread ELSE p

\* SelectInteraction without its WHERE clause
SelectInteraction_nowhere(rows, id) ==
    IF rows = <<>> THEN <<>>
    ELSE <<[filename |-> rows[1].filename, model |-> rows[1].model]>>

\* SELECT filename, model FROM interactions WHERE id = ?  + fetchone()
SelectInteraction(rows, id) ==
    LET hit == SelectSeq(rows, LAMBDA r : r.id = id)
    IN  IF hit = <<>> THEN <<>>
        ELSE <<[filename |-> hit[1].filename, model |-> hit[1].model]>>

\* place of `row` in a list sorted by ascending timestamp: after every row
\* that does not sort after it (SQLite's sorter keeps ties in scan order)
RECURSIVE InsertAsc(_, _)
InsertAsc(sorted, row) ==
    IF sorted = <<>> THEN <<row>>
    ELSE IF sorted[Len(sorted)].timestamp <= row.timestamp
         THEN Append(sorted, row)
         ELSE Append(InsertAsc(SubSeq(sorted, 1, Len(sorted) - 1), row),
                     sorted[Len(sorted)])

RECURSIVE InsertDesc(_, _)
InsertDesc(sorted, row) ==
    IF sorted = <<>> THEN <<row>>
    ELSE IF sorted[Len(sorted)].timestamp >= row.timestamp
         THEN Append(sorted, row)
         ELSE Append(InsertDesc(SubSeq(sorted, 1, Len(sorted) - 1), row),
                     sorted[Len(sorted)])

\* ORDER BY timestamp ASC over a rowid scan
RECURSIVE OrderByTimestampAsc(_)
OrderByTimestampAsc(rows) ==
    IF rows = <<>> THEN <<>>
    ELSE InsertAsc(OrderByTimestampAsc(SubSeq(rows, 1, Len(rows) - 1)),
                   rows[Len(rows)])

\* ORDER BY timestamp DESC over a rowid scan
RECURSIVE OrderByTimestampDesc(_)
OrderByTimestampDesc(rows) ==
    IF rows = <<>> THEN <<>>
    ELSE InsertDesc(OrderByTimestampDesc(SubSeq(rows, 1, Len(rows) - 1)),
                    rows[Len(rows)])

RECURSIVE SeqSum(_)
SeqSum(s) == IF s = <<>> THEN 0 ELSE Head(s) + SeqSum(Tail(s))

\* SQL SUM(): NULL over no rows
SqlSum(values) == IF values = <<>> THEN <<>> ELSE <<SeqSum(values)>>

\* Python `x or 0` on a fetched aggregate
OrZero(x) == IF x = <<>> THEN 0 ELSE x[1]

\* SelectInteractionStats with COUNT(DISTINCT filename) for COUNT(*)
SelectInteractionStats_distinct(rows) ==
    [total_interactions |->
        Cardinality({rows[i].filename : i \in 1..Len(rows)}),
     total_tokens |->
        SqlSum([i \in 1..Len(rows) |->
                    rows[i].input_tokens + rows[i].output_tokens]),
     total_cost |-> SqlSum([i \in 1..Len(rows) |-> rows[i].estimated_cost])]

\* SELECT COUNT(*), SUM(input_tokens + output_tokens), SUM(estimated_cost)
\* FROM interactions
SelectInteractionStats(rows) ==
    [total_interactions |-> Len(rows),
     total_tokens |->
        SqlSum([i \in 1..Len(rows) |->
                    rows[i].input_tokens + rows[i].output_tokens]),
     total_cost |-> SqlSum([i \in 1..Len(rows) |-> rows[i].estimated_cost])]

\* SELECT SUM(tokens), SUM(cost) FROM chat_messages
SelectChatStats(rows) ==
    [chat_tokens |-> SqlSum([i \in 1..Len(rows) |-> rows[i].tokens]),
     chat_cost |-> SqlSum([i \in 1..Len(rows) |-> rows[i].cost])]

\* SelectChatHistory without its WHERE clause
SelectChatHistory_nowhere(rows, interaction_id) ==
    LET hit == OrderByTimestampAsc(rows)
    IN  [i \in 1..Len(hit) |->
            [role |-> hit[i].role, content |-> hit[i].content,
             tokens |-> hit[i].tokens, cost |-> hit[i].cost,
             timestamp |-> hit[i].timestamp]]

\* SelectChatHistory with ORDER BY timestamp DESC
SelectChatHistory_desc(rows, interaction_id) ==
    LET hit == OrderByTimestampDesc(
                   SelectSeq(rows, LAMBDA r : r.interaction_id = interaction_id))
    IN  [i \in 1..Len(hit) |->
            [role |-> hit[i].role, content |-> hit[i].content,
             tokens |-> hit[i].tokens, cost |-> hit[i].cost,
             timestamp |-> hit[i].timestamp]]

\* SELECT role, content, tokens, cost, timestamp FROM chat_messages
\* WHERE interaction_id = ? ORDER BY timestamp ASC
SelectChatHistory(rows, interaction_id) ==
    LET hit == OrderByTimestampAsc(
                   SelectSeq(rows, LAMBDA r : r.interaction_id = interaction_id))
    IN  [i \in 1..Len(hit) |->
            [role |-> hit[i].role, content |-> hit[i].content,
             tokens |-> hit[i].tokens, cost |-> hit[i].cost,
             timestamp |-> hit[i].timestamp]]

\* SELECT ... FROM interactions ORDER BY timestamp DESC
SelectResults(rows) == OrderByTimestampDesc(rows)

----------------------------------------------------------------------------
(* Requests, subprocess outcomes, responses *)

Intent_describe == <<"D","e","s","c","r","i","b","e"," ","t","h","i","s"," ",
                     "i","m","a","g","e"," ","i","n"," ","d","e","t","a","i",
                     "l",".">>
Intent_grounded == GROUNDING \o <<"R","e","a","d">>

\* multipart forms posted to /upload
UploadRequests ==
    { [has_file |-> TRUE, filename |-> <<"a">>, content |-> "img1",
       intent |-> <<>>, model |-> <<>>],
      [has_file |-> TRUE, filename |-> <<"a">>, content |-> "img2",
       intent |-> <<Intent_describe>>, model |-> <<"moondream">>],
      [has_file |-> TRUE, filename |-> <<>>, content |-> "img1",
       intent |-> <<>>, model |-> <<>>],
      [has_file |-> FALSE, filename |-> <<>>, content |-> "none",
       intent |-> <<>>, model |-> <<>>] }

Intent_short == <<"D","e","s","c","r","i","b","e"," ","t","h","i","s">>
Intent_upper == <<"D","E","S","C","R","I","B","E"," ","T","H","I","S"," ",
                  "I","M","A","G","E">>
Intent_mid == <<"R","e","a","d"," ">> \o GROUNDING

\* further forms posted to /upload: other instructions and models
WideUploadRequests ==
    UploadRequests \cup
    { [has_file |-> TRUE, filename |-> <<"a">>, content |-> "img1",
       intent |-> <<x[1]>>, model |-> <<x[2]>>] :
         x \in { <<Intent_grounded, "mystery">>, <<Intent_short, "llava">>,
                 <<Intent_upper, "mystery">>, <<Intent_mid, "llava">>,
                 <<<<>>, "deepseek-ocr">> } }

Messages == { <<" ","w","h","y","?"," ">>,
              <<"a","n","d"," ","n","o","w","?">>,
              <<" ">> }

\* the ids a request can name: those in use and the next one, not yet used
InteractionIds(rows) == 1..(Len(rows) + 1)

\* JSON bodies posted to /chat/<interaction_id>
ChatRequests(rows) ==
    [interaction_id : InteractionIds(rows), message : Messages]

\* GET /chat/<interaction_id>
HistoryRequests(rows) == [interaction_id : InteractionIds(rows)]

NoArgs == <<>>
NoLocals == <<>>
NoResponse == [handler |-> "none", args |-> NoArgs, status |-> 0, body |-> <<>>]

Stdout_ok == <<" ","r","e","s","u","l","t","\n">>
Stderr_fail == <<"b","o","o","m">>

\* what subprocess.run(['ollama', 'run', model, prompt], timeout=120) can do:
\* return a CompletedProcess, or raise
GatewayResults ==
    { [kind |-> "completed", returncode |-> 0,
       stdout |-> Stdout_ok, stderr |-> <<>>],
      [kind |-> "completed", returncode |-> 1,
       stdout |-> <<>>, stderr |-> Stderr_fail],
      [kind |-> "TimeoutExpired", returncode |-> 0,
       stdout |-> <<>>, stderr |-> <<>>],
      [kind |-> "FileNotFoundError", returncode |-> 0,
       stdout |-> <<>>, stderr |-> <<>>],
      [kind |-> "OSError", returncode |-> 0,
       stdout |-> <<>>, stderr |-> <<>>] }

\* ReturnCodeFails with the exit status check left out
ReturnCodeFails_never(result) == FALSE

\* `if result.returncode != 0`
ReturnCodeFails(result) == result.returncode # 0

\* jsonify({'error': ...}), code
Error(code, message, detail) ==
    [status |-> code, body |-> [error |-> message, detail |-> detail]]

\* UploadExcept without the FileNotFoundError clause
UploadExcept_merged(kind) ==
    IF kind \in {"TimeoutExpired", "FileNotFoundError"}
    THEN Error(500, "OCR processing timed out", <<>>)
    ELSE Error(500, "str(e)", kind)

\* the except clauses of upload_file, by exception class
UploadExcept(kind) ==
    IF kind = "TimeoutExpired"
    THEN Error(500, "OCR processing timed out", <<>>)
    ELSE IF kind = "FileNotFoundError"
    THEN Error(500, "Ollama not found. Please ensure Ollama is installed and in PATH", <<>>)
    ELSE Error(500, "str(e)", kind)

\* the except clauses of send_chat_message, by exception class
ChatExcept(kind) ==
    IF kind = "TimeoutExpired"
    THEN Error(500, "Chat processing timed out", <<>>)
    ELSE IF kind = "FileNotFoundError"
    THEN Error(500, "Ollama not found", <<>>)
    ELSE Error(500, "str(e)", kind)

----------------------------------------------------------------------------
(* upload_file and send_chat_message: the pure parts *)

\* f"{timestamp}_{file.filename}"
UploadFilename(t, name) == Strftime(t) \o <<"_">> \o name

\* UPLOAD_FOLDER / filename
Filepath(filename) == UPLOAD_FOLDER \o <<"/">> \o filename

\* UploadPrompt with a case-sensitive test for the describe prefix
UploadPrompt_cased(filepath, intent) ==
    IF StartsWith(intent, Str_describe)
    THEN filepath \o <<"\n">> \o intent
    ELSE IF ~StartsWith(intent, GROUNDING)
    THEN filepath \o <<"\n">> \o GROUNDING \o intent
    ELSE filepath \o <<"\n">> \o intent

\* the prompt of upload_file
UploadPrompt(filepath, intent) ==
    IF StartsWith(Lower(intent), Str_describe)
    THEN filepath \o <<"\n">> \o intent
    ELSE IF ~StartsWith(intent, GROUNDING)
    THEN filepath \o <<"\n">> \o GROUNDING \o intent
    ELSE filepath \o <<"\n">> \o intent

\* the prompt of send_chat_message
ChatPrompt(filepath, message) == filepath \o <<"\n">> \o message

\* UploadEstimates with the output tokens estimated from the raw intent
UploadEstimates_intent(intent, output, model) ==
    LET input_tokens == estimate_tokens(intent)
        output_tokens == estimate_tokens(intent)
    IN  [input_tokens |-> input_tokens,
         output_tokens |-> output_tokens,
         estimated_cost |-> calculate_cost(input_tokens, output_tokens, model)]

\* token estimates and cost of an upload
UploadEstimates(intent, output, model) ==
    LET input_tokens == estimate_tokens(intent)
        output_tokens == estimate_tokens(output)
    IN  [input_tokens |-> input_tokens,
         output_tokens |-> output_tokens,
         estimated_cost |-> calculate_cost(input_tokens, output_tokens, model)]

\* ChatEstimates charging the user message on both sides
ChatEstimates_both(message, assistant_response, model) ==
    LET user_tokens == estimate_tokens(message)
        assistant_tokens == estimate_tokens(assistant_response)
    IN  [user_tokens |-> user_tokens,
         assistant_tokens |-> assistant_tokens,
         user_cost |-> calculate_cost(user_tokens, user_tokens, model),
         assistant_cost |-> calculate_cost(0, assistant_tokens, model)]

\* token estimates and costs of a chat turn
ChatEstimates(message, assistant_response, model) ==
    LET user_tokens == estimate_tokens(message)
        assistant_tokens == estimate_tokens(assistant_response)
    IN  [user_tokens |-> user_tokens,
         assistant_tokens |-> assistant_tokens,
         user_cost |-> calculate_cost(user_tokens, 0, model),
         assistant_cost |-> calculate_cost(0, assistant_tokens, model)]

\* InteractionRow with the two token counts bound to each other's column
InteractionRow_swapped(id, l, t) ==
    [id |-> id, filename |-> l.filename, intent |-> l.intent,
     output |-> l.output, model |-> l.model,
     input_tokens |-> l.output_tokens, output_tokens |-> l.input_tokens,
     estimated_cost |-> l.estimated_cost,
     timestamp |-> CURRENT_TIMESTAMP(t)]

\* the row INSERT INTO interactions stores
InteractionRow(id, l, t) ==
    [id |-> id, filename |-> l.filename, intent |-> l.intent,
     output |-> l.output, model |-> l.model,
     input_tokens |-> l.input_tokens, output_tokens |-> l.output_tokens,
     estimated_cost |-> l.estimated_cost,
     timestamp |-> CURRENT_TIMESTAMP(t)]

\* ChatRow binding the next interaction's id
ChatRow_shifted(id, interaction_id, role, content, tokens, cost, t) ==
    [id |-> id, interaction_id |-> interaction_id + 1, role |-> role,
     content |-> content, tokens |-> tokens, cost |-> cost,
     timestamp |-> CURRENT_TIMESTAMP(t)]

\* the row INSERT INTO chat_messages stores
ChatRow(id, interaction_id, role, content, tokens, cost, t) ==
    [id |-> id, interaction_id |-> interaction_id, role |-> role,
     content |-> content, tokens |-> tokens, cost |-> cost,
     timestamp |-> CURRENT_TIMESTAMP(t)]

\* the body of upload_file's success response
UploadSuccess(l) ==
    [status |-> 200,
     body |-> [success |-> TRUE, filename |-> l.filename, output |-> l.output,
               tokens |-> [input |-> l.input_tokens,
                           output |-> l.output_tokens],
               cost |-> l.estimated_cost]]

\* StatsResult without the chat_messages sums
StatsResult_nochat(interaction_row, chat_row) ==
    [status |-> 200,
     body |-> [total_interactions |-> interaction_row.total_interactions,
               total_tokens |-> OrZero(interaction_row.total_tokens),
               total_cost |-> OrZero(interaction_row.total_cost)]]

\* StatsResult without the `or 0` fallbacks: None + None raises TypeError
StatsResult_nofallback(interaction_row, chat_row) ==
    IF \/ interaction_row.total_tokens = <<>>
       \/ interaction_row.total_cost = <<>>
       \/ chat_row.chat_tokens = <<>>
       \/ chat_row.chat_cost = <<>>
    THEN [status |-> 500, body |-> [error |-> "TypeError", detail |-> <<>>]]
    ELSE [status |-> 200,
          body |-> [total_interactions |-> interaction_row.total_interactions,
                    total_tokens |-> interaction_row.total_tokens[1]
                                     + chat_row.chat_tokens[1],
                    total_cost |-> interaction_row.total_cost[1]
                                   + chat_row.chat_cost[1]]]

\* the body of get_stats' response
StatsResult(interaction_row, chat_row) ==
    [status |-> 200,
     body |-> [total_interactions |-> interaction_row.total_interactions,
               total_tokens |-> OrZero(interaction_row.total_tokens)
                                + OrZero(chat_row.chat_tokens),
               total_cost |-> OrZero(interaction_row.total_cost)
                              + OrZero(chat_row.chat_cost)]]

----------------------------------------------------------------------------
(* State machine *)

EmptyDir == [f \in {} |-> "none"]

Init ==
    /\ now = 0
    /\ files = EmptyDir
    /\ interactions = <<>>
    /\ chat_messages = <<>>
    /\ db_lock = NoThread
    /\ pc = [p \in Procs |-> "idle"]
    /\ handler = [p \in Procs |-> "none"]
    /\ args = [p \in Procs |-> NoArgs]
    /\ locals = [p \in Procs |-> NoLocals]
    /\ tx = [p \in Procs |-> <<>>]
    /\ response = NoResponse
    /\ dispatched = 0
    /\ reported = <<>>
    /\ turns = <<>>

\* the view functions whose requests stay in flight over several steps
Counted == {"upload", "chat", "stats"}

\* Flask accepts request `a` for view function `h` and runs it on `p`, a
\* free thread (which one is immaterial: the first free one is taken)
Accept(p, h, a) ==
    /\ pc[p] = "idle"
    /\ \A q \in Procs : pc[q] = "idle" => ThreadNo(p) <= ThreadNo(q)
    /\ h \in Counted => dispatched < MaxRequests
    /\ dispatched' = IF h \in Counted THEN dispatched + 1 ELSE dispatched
    /\ UNCHANGED reported

\* the view function `h`, given `a`, answers `r` before any blocking call
Answer(h, a, r) ==
    /\ response' = [handler |-> h, args |-> a,
                    status |-> r.status, body |-> r.body]
    /\ UNCHANGED <<pc, handler, args, locals>>

\* the view function `h` on thread `p` reaches the blocking call `at`
Block(p, h, a, at, l) ==
    /\ pc' = [pc EXCEPT ![p] = at]
    /\ handler' = [handler EXCEPT ![p] = h]
    /\ args' = [args EXCEPT ![p] = a]
    /\ locals' = [locals EXCEPT ![p] = l]
    /\ response' = NoResponse

\* the view function on thread `p` resumes and moves on to `at`
Goto(p, at, l) ==
    /\ pc' = [pc EXCEPT ![p] = at]
    /\ locals' = [locals EXCEPT ![p] = l]
    /\ response' = NoResponse
    /\ UNCHANGED <<handler, args, dispatched, reported>>

\* the view function on thread `p` resumes and returns response `r`
Return(p, r) ==
    /\ pc' = [pc EXCEPT ![p] = "idle"]
    /\ handler' = [handler EXCEPT ![p] = "none"]
    /\ args' = [args EXCEPT ![p] = NoArgs]
    /\ locals' = [locals EXCEPT ![p] = NoLocals]
    /\ response' = [handler |-> handler[p], args |-> args[p],
                    status |-> r.status, body |-> r.body]
    /\ UNCHANGED <<dispatched, reported>>

Tick ==
    /\ now < MaxClock
    /\ now' = now + 1
    /\ response' = NoResponse
    /\ UNCHANGED <<files, interactions, chat_messages, db_lock, pc, handler,
                   args, locals, tx, dispatched, reported, turns>>

(* upload_file *)

UploadNoFile(p) ==
    /\ \E a \in UploadRequests :
          /\ Accept(p, "upload", a)
          /\ ~a.has_file
          /\ Answer("upload", a, Error(400, "No file provided", <<>>))
    /\ UNCHANGED <<now, files, interactions, chat_messages, db_lock, tx, turns>>

UploadNoName(p) ==
    /\ \E a \in UploadRequests :
          /\ Accept(p, "upload", a)
          /\ a.has_file
          /\ a.filename = <<>>
          /\ Answer("upload", a, Error(400, "No file selected", <<>>))
    /\ UNCHANGED <<now, files, interactions, chat_messages, db_lock, tx, turns>>

\* UploadSaveOf launching the subprocess without saving the file
UploadSaveOf_unsaved(p, a) ==
    /\ Accept(p, "upload", a)
    /\ a.has_file
    /\ a.filename # <<>>
    /\ LET intent == GetOr(a.intent, DEFAULT_INTENT)
           model == GetOr(a.model, DEFAULT_MODEL)
           filename == UploadFilename(now, a.filename)
       IN  Block(p, "upload", a, "invoking",
                 [filename |-> filename, intent |-> intent,
                  model |-> model,
                  prompt |-> UploadPrompt(Filepath(filename), intent)])
    /\ UNCHANGED <<now, files, interactions, chat_messages, db_lock, tx, turns>>

\* file.save(filepath), prompt construction, subprocess launched
UploadSaveOf(p, a) ==
    /\ Accept(p, "upload", a)
    /\ a.has_file
    /\ a.filename # <<>>
    /\ LET intent == GetOr(a.intent, DEFAULT_INTENT)
           model == GetOr(a.model, DEFAULT_MODEL)
           filename == UploadFilename(now, a.filename)
       IN  /\ files' = [f \in DOMAIN files \cup {filename} |->
                            IF f = filename THEN a.content ELSE files[f]]
           /\ Block(p, "upload", a, "invoking",
                    [filename |-> filename, intent |-> intent,
                     model |-> model,
                     prompt |-> UploadPrompt(Filepath(filename), intent)])
    /\ UNCHANGED <<now, interactions, chat_messages, db_lock, tx, turns>>

UploadSave(p) == \E a \in UploadRequests : UploadSaveOf(p, a)

UploadSaveWide(p) == \E a \in WideUploadRequests : UploadSaveOf(p, a)

\* subprocess.run raises
UploadGatewayRaises(p) ==
    /\ pc[p] = "invoking" /\ handler[p] = "upload"
    /\ \E result \in GatewayResults :
          /\ result.kind # "completed"
          /\ Return(p, UploadExcept(result.kind))
    /\ UNCHANGED <<now, files, interactions, chat_messages, db_lock, tx, turns>>

\* subprocess.run returns a CompletedProcess with a non-zero exit status
UploadGatewayFails(p) ==
    /\ pc[p] = "invoking" /\ handler[p] = "upload"
    /\ \E result \in GatewayResults :
          /\ result.kind = "completed"
          /\ ReturnCodeFails(result)
          /\ Return(p, Error(500, "Ollama error: ", result.stderr))
    /\ UNCHANGED <<now, files, interactions, chat_messages, db_lock, tx, turns>>

\* the locals of upload_file once subprocess.run has returned `result`
UploadLocals(l, result) ==
    LET output == Strip(result.stdout)
        e == UploadEstimates(l.intent, output, l.model)
    IN  [filename |-> l.filename, intent |-> l.intent, model |-> l.model,
         prompt |-> l.prompt, result |-> result, output |-> output,
         input_tokens |-> e.input_tokens, output_tokens |-> e.output_tokens,
         estimated_cost |-> e.estimated_cost]

\* subprocess.run returns a CompletedProcess that passes the exit status
\* check; cursor.execute('INSERT INTO interactions ...') gets the write lock
UploadInsert(p) ==
    /\ pc[p] = "invoking" /\ handler[p] = "upload"
    /\ db_lock \in {NoThread, p}
    /\ \E result \in GatewayResults :
          /\ result.kind = "completed"
          /\ ~ReturnCodeFails(result)
          /\ LET l == UploadLocals(locals[p], result)
                 row == InteractionRow(NextId(interactions, tx[p]), l, now)
                 r == ExecInsert(interactions, tx[p], row)
             IN  /\ interactions' = r.table
                 /\ tx' = [tx EXCEPT ![p] = r.pending]
                 /\ db_lock' = LockAfter(p, r.pending)
                 /\ Goto(p, "commit", l)
    /\ UNCHANGED <<now, files, chat_messages, turns>>

\* conn.commit(), then the success response
UploadCommit(p) ==
    /\ pc[p] = "commit" /\ handler[p] = "upload"
    /\ interactions' = CommitRows(interactions, tx[p])
    /\ tx' = [tx EXCEPT ![p] = <<>>]
    /\ db_lock' = IF db_lock = p THEN NoThread ELSE db_lock
    /\ Return(p, UploadSuccess(locals[p]))
    /\ UNCHANGED <<now, files, chat_messages, turns>>

(* send_chat_message *)

ChatNoMessage(p) ==
    /\ \E a \in ChatRequests(interactions) :
          /\ Accept(p, "chat", a)
          /\ Strip(a.message) = <<>>
          /\ Answer("chat", a, Error(400, "No message provided", <<>>))
    /\ UNCHANGED <<now, files, interactions, chat_messages, db_lock, tx, turns>>

\* the interaction is looked up; not found
ChatNotFound(p) ==
    /\ \E a \in ChatRequests(interactions) :
          /\ Accept(p, "chat", a)
          /\ Strip(a.message) # <<>>
          /\ SelectInteraction(interactions, a.interaction_id) = <<>>
          /\ Answer("chat", a, Error(404, "Interaction not found", <<>>))
    /\ UNCHANGED <<now, files, interactions, chat_messages, db_lock, tx, turns>>

\* ChatLocate looking the interaction up in a write transaction (BEGIN
\* IMMEDIATE) that stays open over the subprocess
ChatLocate_locked(p) ==
    /\ db_lock = NoThread
    /\ \E a \in ChatRequests(interactions) :
          /\ Accept(p, "chat", a)
          /\ Strip(a.message) # <<>>
          /\ LET found == SelectInteraction(interactions, a.interaction_id)
                 message == Strip(a.message)
             IN  /\ found # <<>>
                 /\ Block(p, "chat", a, "invoking",
                          [filename |-> found[1].filename,
                           model |-> found[1].model, message |-> message,
                           prompt |-> ChatPrompt(Filepath(found[1].filename),
                                                 message)])
    /\ db_lock' = p
    /\ UNCHANGED <<now, files, interactions, chat_messages, tx, turns>>

\* the interaction is looked up; found, prompt built, subprocess launched
ChatLocate(p) ==
    /\ \E a \in ChatRequests(interactions) :
          /\ Accept(p, "chat", a)
          /\ Strip(a.message) # <<>>
          /\ LET found == SelectInteraction(interactions, a.interaction_id)
                 message == Strip(a.message)
             IN  /\ found # <<>>
                 /\ Block(p, "chat", a, "invoking",
                          [filename |-> found[1].filename,
                           model |-> found[1].model, message |-> message,
                           prompt |-> ChatPrompt(Filepath(found[1].filename),
                                                 message)])
    /\ UNCHANGED <<now, files, interactions, chat_messages, db_lock, tx, turns>>

ChatGatewayRaises(p) ==
    /\ pc[p] = "invoking" /\ handler[p] = "chat"
    /\ \E result \in GatewayResults :
          /\ result.kind # "completed"
          /\ Return(p, ChatExcept(result.kind))
    /\ UNCHANGED <<now, files, interactions, chat_messages, db_lock, tx, turns>>

\* subprocess.run returns a CompletedProcess with a non-zero exit status
ChatGatewayFails(p) ==
    /\ pc[p] = "invoking" /\ handler[p] = "chat"
    /\ \E result \in GatewayResults :
          /\ result.kind = "completed"
          /\ ReturnCodeFails(result)
          /\ Return(p, Error(500, "Ollama error: ", result.stderr))
    /\ UNCHANGED <<now, files, interactions, chat_messages, db_lock, tx, turns>>

\* the locals of send_chat_message once subprocess.run has returned `result`
ChatLocals(l, result) ==
    LET assistant_response == Strip(result.stdout)
        e == ChatEstimates(l.message, assistant_response, l.model)
    IN  [filename |-> l.filename, model |-> l.model, message |-> l.message,
         prompt |-> l.prompt, result |-> result,
         assistant_response |-> assistant_response,
         user_tokens |-> e.user_tokens,
         assistant_tokens |-> e.assistant_tokens,
         user_cost |-> e.user_cost, assistant_cost |-> e.assistant_cost]

\* subprocess.run returns a CompletedProcess that passes the exit status
\* check; cursor.execute('INSERT INTO chat_messages ...') for the user
\* message gets the write lock
ChatInsertUser(p) ==
    /\ pc[p] = "invoking" /\ handler[p] = "chat"
    /\ db_lock \in {NoThread, p}
    /\ \E result \in GatewayResults :
          /\ result.kind = "completed"
          /\ ~ReturnCodeFails(result)
          /\ LET l == ChatLocals(locals[p], result)
                 row == ChatRow(NextId(chat_messages, tx[p]),
                                args[p].interaction_id, "user", l.message,
                                l.user_tokens, l.user_cost, now)
                 r == ExecInsert(chat_messages, tx[p], row)
             IN  /\ chat_messages' = r.table
                 /\ tx' = [tx EXCEPT ![p] = r.pending]
                 /\ db_lock' = LockAfter(p, r.pending)
                 /\ Goto(p, "insert_assistant", l)
    /\ UNCHANGED <<now, files, interactions, turns>>

\* cursor.execute('INSERT INTO chat_messages ...') for the reply
ChatInsertAssistant(p) ==
    /\ pc[p] = "insert_assistant" /\ handler[p] = "chat"
    /\ db_lock \in {NoThread, p}
    /\ LET l == locals[p]
           row == ChatRow(NextId(chat_messages, tx[p]), args[p].interaction_id,
                          "assistant", l.assistant_response, l.assistant_tokens,
                          l.assistant_cost, now)
           r == ExecInsert(chat_messages, tx[p], row)
       IN  /\ chat_messages' = r.table
           /\ tx' = [tx EXCEPT ![p] = r.pending]
           /\ db_lock' = LockAfter(p, r.pending)
    /\ Goto(p, "commit", locals[p])
    /\ UNCHANGED <<now, files, interactions, turns>>

\* conn.commit(), then the success response
ChatCommit(p) ==
    /\ pc[p] = "commit" /\ handler[p] = "chat"
    /\ chat_messages' = CommitRows(chat_messages, tx[p])
    /\ tx' = [tx EXCEPT ![p] = <<>>]
    /\ db_lock' = IF db_lock = p THEN NoThread ELSE db_lock
    /\ turns' = Append(turns, [interaction_id |-> args[p].interaction_id,
                               message |-> locals[p].message,
                               response |-> locals[p].assistant_response])
    /\ Return(p, [status |-> 200,
                  body |-> [success |-> TRUE,
                            response |-> locals[p].assistant_response]])
    /\ UNCHANGED <<now, files, interactions>>

\* subprocess.run returns a CompletedProcess that passes the exit status
\* check, and the first INSERT raises (sqlite3.OperationalError: the
\* database is locked by another connection, disk I/O error, ...)
FirstInsertRaises(p) ==
    /\ pc[p] = "invoking" /\ handler[p] \in {"upload", "chat"}
    /\ \E result \in GatewayResults :
          /\ result.kind = "completed"
          /\ ~ReturnCodeFails(result)
    /\ Return(p, Error(500, "str(e)", "sqlite3.Error"))
    /\ UNCHANGED <<now, files, interactions, chat_messages, db_lock, tx, turns>>

\* a later statement or the commit raises: get_db rolls back and re-raises,
\* the view function's `except Exception` answers 500
DbError(p) ==
    /\ pc[p] \in {"insert_assistant", "commit"}
    /\ interactions' = IF handler[p] = "upload"
                       THEN RollbackRows(interactions, tx[p]) ELSE interactions
    /\ chat_messages' = IF handler[p] = "chat"
                        THEN RollbackRows(chat_messages, tx[p]) ELSE chat_messages
    /\ tx' = [tx EXCEPT ![p] = <<>>]
    /\ db_lock' = IF db_lock = p THEN NoThread ELSE db_lock
    /\ Return(p, Error(500, "str(e)", "sqlite3.Error"))
    /\ UNCHANGED <<now, files, turns>>

(* read-only views *)

GetResults(p) ==
    /\ Accept(p, "results", NoArgs)
    /\ Answer("results", NoArgs,
              [status |-> 200,
               body |-> [results |-> SelectResults(interactions)]])
    /\ UNCHANGED <<now, files, interactions, chat_messages, db_lock, tx, turns>>

GetChatHistory(p) ==
    /\ \E a \in HistoryRequests(interactions) :
          /\ Accept(p, "history", a)
          /\ Answer("history", a,
                    [status |-> 200,
                     body |-> [messages |->
                         SelectChatHistory(chat_messages, a.interaction_id)]])
    /\ UNCHANGED <<now, files, interactions, chat_messages, db_lock, tx, turns>>

\* the first SELECT of get_stats
GetStatsInteractions(p) ==
    /\ Accept(p, "stats", NoArgs)
    /\ Block(p, "stats", NoArgs, "stats_chat",
             [interaction_row |-> SelectInteractionStats(interactions),
              prior |-> reported])
    /\ UNCHANGED <<now, files, interactions, chat_messages, db_lock, tx, turns>>

\* the second SELECT of get_stats, then the response
GetStatsChat(p) ==
    /\ pc[p] = "stats_chat" /\ handler[p] = "stats"
    /\ Return(p, StatsResult(locals[p].interaction_row,
                             SelectChatStats(chat_messages)))
    /\ UNCHANGED <<now, files, interactions, chat_messages, db_lock, tx, turns>>

\* GetStatsChat, the answer logged in `reported`
GetStatsChatLogged(p) ==
    /\ pc[p] = "stats_chat" /\ handler[p] = "stats"
    /\ LET r == StatsResult(locals[p].interaction_row,
                            SelectChatStats(chat_messages))
       IN  /\ response' = [handler |-> handler[p], args |-> args[p],
                           status |-> r.status, body |-> r.body]
           /\ reported' = <<r.body>>
    /\ pc' = [pc EXCEPT ![p] = "idle"]
    /\ handler' = [handler EXCEPT ![p] = "none"]
    /\ args' = [args EXCEPT ![p] = NoArgs]
    /\ locals' = [locals EXCEPT ![p] = NoLocals]
    /\ UNCHANGED <<now, files, interactions, chat_messages, db_lock, tx,
                   dispatched, turns>>

Next ==
    \/ Tick
    \/ \E p \in Procs :
          \/ UploadNoFile(p)
          \/ UploadNoName(p)
          \/ UploadSave(p)
          \/ UploadGatewayRaises(p)
          \/ UploadGatewayFails(p)
          \/ UploadInsert(p)
          \/ UploadCommit(p)
          \/ ChatNoMessage(p)
          \/ ChatNotFound(p)
          \/ ChatLocate(p)
          \/ ChatGatewayRaises(p)
          \/ ChatGatewayFails(p)
          \/ ChatInsertUser(p)
          \/ ChatInsertAssistant(p)
          \/ ChatCommit(p)
          \/ FirstInsertRaises(p)
          \/ DbError(p)
          \/ GetResults(p)
          \/ GetChatHistory(p)
          \/ GetStatsInteractions(p)
          \/ GetStatsChat(p)

Spec == Init /\ [][Next]_vars

\* the upload flow alone, served by one thread, over the wider range of forms
UploadNext ==
    \/ Tick
    \/ UploadNoFile("t1")
    \/ UploadNoName("t1")
    \/ UploadSaveWide("t1")
    \/ UploadGatewayRaises("t1")
    \/ UploadGatewayFails("t1")
    \/ UploadInsert("t1")
    \/ UploadCommit("t1")
    \/ FirstInsertRaises("t1")
    \/ DbError("t1")
    \/ GetResults("t1")

UploadSpec == Init /\ [][UploadNext]_vars

\* uploads, chat turns and statistics reads on two threads, every
\* statistics answer logged
StatsNext ==
    \/ Tick
    \/ \E p \in Procs :
          \/ UploadNoFile(p)
          \/ UploadNoName(p)
          \/ UploadSave(p)
          \/ UploadGatewayRaises(p)
          \/ UploadGatewayFails(p)
          \/ UploadInsert(p)
          \/ UploadCommit(p)
          \/ ChatNoMessage(p)
          \/ ChatNotFound(p)
          \/ ChatLocate(p)
          \/ ChatGatewayRaises(p)
          \/ ChatGatewayFails(p)
          \/ ChatInsertUser(p)
          \/ ChatInsertAssistant(p)
          \/ ChatCommit(p)
          \/ FirstInsertRaises(p)
          \/ DbError(p)
          \/ GetStatsInteractions(p)
          \/ GetStatsChatLogged(p)

StatsSpec == Init /\ [][StatsNext]_vars

\* the estimator alone: estimate_tokens and calculate_cost applied to
\* arguments of every kind
MaxText == 9
MaxTokens == 3

\* texts of every length up to MaxText
Texts == {[i \in 1..n |-> "x"] : n \in 0..MaxText}

\* the models priced, and two that are not
ModelIds == DOMAIN MODEL_COSTS \cup {"mystery", ""}

EstimateTokens ==
    /\ \E text, other \in Texts :
          response' = [handler |-> "estimate_tokens",
                       args |-> [text |-> text, other |-> other],
                       status |-> 200,
                       body |-> [tokens |-> estimate_tokens(text),
                                 other_tokens |-> estimate_tokens(other)]]
    /\ UNCHANGED <<now, files, interactions, chat_messages, db_lock, pc,
                   handler, args, locals, tx, dispatched, reported, turns>>

CalculateCost ==
    /\ \E input_tokens, output_tokens \in 0..MaxTokens, model \in ModelIds :
          response' = [handler |-> "calculate_cost",
                       args |-> [input_tokens |-> input_tokens,
                                 output_tokens |-> output_tokens,
                                 model |-> model],
                       status |-> 200,
                       body |-> [cost |-> calculate_cost(input_tokens,
                                                         output_tokens, model)]]
    /\ UNCHANGED <<now, files, interactions, chat_messages, db_lock, pc,
                   handler, args, locals, tx, dispatched, reported, turns>>

EstimatorNext == EstimateTokens \/ CalculateCost

EstimatorSpec == Init /\ [][EstimatorNext]_vars

----------------------------------------------------------------------------
(* Properties *)

Written == {"insert_assistant", "commit"}

\* C1: a request whose gateway invocation fails (non-zero exit status,
\* timeout, executable not found, any other exception) leaves interactions
\* and chat_messages as they were and is answered 500; only a request whose
\* subprocess completed with exit status 0 ever inserts a row.
C1_GatewayFailureWritesNothing ==
    [][\A p \in Procs :
          /\ (pc[p] = "invoking" /\ pc'[p] = "idle")
                => /\ interactions' = interactions
                   /\ chat_messages' = chat_messages
                   /\ tx'[p] = <<>>
                   /\ response'.status = 500
          /\ pc'[p] \in Written
                => /\ locals'[p].result.kind = "completed"
                   /\ locals'[p].result.returncode = 0]_vars

\* a chat request has just been answered "timed out" with one interaction
\* and no chat message stored
C1_Witness ==
    /\ response.status = 500
    /\ response.handler = "chat"
    /\ response.body.error = "Chat processing timed out"
    /\ Len(interactions) = 1
    /\ chat_messages = <<>>

\* user rows and assistant rows of `rows` come in adjacent pairs of one turn
Paired(rows) ==
    /\ Len(rows) % 2 = 0
    /\ \A k \in 1..Len(rows) :
          IF k % 2 = 1
          THEN /\ rows[k].role = "user"
               /\ rows[k + 1].role = "assistant"
               /\ rows[k + 1].interaction_id = rows[k].interaction_id
          ELSE rows[k].role = "assistant"

\* C2: the committed rows of chat_messages, which is all any reader sees,
\* hold for every chat turn both of its rows or neither, also after the
\* second insert or the commit has failed; no chat history read returns a
\* user message without the assistant message of its turn.
C2_ChatTurnAtomic ==
    /\ Paired(chat_messages)
    /\ response.handler = "history" =>
          \A k \in 1..Len(response.body.messages) :
             response.body.messages[k].role = "user" =>
                /\ k < Len(response.body.messages)
                /\ response.body.messages[k + 1].role = "assistant"

\* a chat history is read while a turn on that interaction has inserted its
\* user row and not yet its assistant row
C2_Witness ==
    /\ response.handler = "history"
    /\ \E p \in Procs :
          /\ pc[p] = "insert_assistant"
          /\ Len(tx[p]) = 1
          /\ args[p].interaction_id = response.args.interaction_id

\* C3: whatever two chat requests on one interaction do at the same time,
\* the chat history read of every interaction has an even number of
\* messages and never an assistant message right after an assistant message.
C3_NoInterleaving ==
    \A i \in InteractionIds(interactions) :
       LET h == SelectChatHistory(chat_messages, i)
       IN  /\ Len(h) % 2 = 0
           /\ \A k \in 1..(Len(h) - 1) :
                 ~(h[k].role = "assistant" /\ h[k + 1].role = "assistant")

\* two chat turns on one interaction are in flight at once: one has inserted
\* both rows and holds the write lock, the other waits for its subprocess
C3_Witness ==
    \E p, q \in Procs :
       /\ p # q
       /\ handler[p] = "chat" /\ handler[q] = "chat"
       /\ args[p].interaction_id = args[q].interaction_id
       /\ pc[p] = "commit" /\ Len(tx[p]) = 2 /\ db_lock = p
       /\ pc[q] = "invoking"

\* C4: the chat history read of an interaction returns, for its N successful
\* turns (failed turns leave nothing), 2N messages with non-decreasing
\* timestamps, the k-th pair being the k-th turn's message as user and its
\* reply as assistant.
C4_HistoryIsTheTurns ==
    \A i \in InteractionIds(interactions) :
       LET h == SelectChatHistory(chat_messages, i)
           t == SelectSeq(turns, LAMBDA x : x.interaction_id = i)
       IN  /\ Len(h) = 2 * Len(t)
           /\ \A k \in 1..Len(t) :
                 /\ h[2 * k - 1].role = "user"
                 /\ h[2 * k - 1].content = t[k].message
                 /\ h[2 * k].role = "assistant"
                 /\ h[2 * k].content = t[k].response
           /\ \A k \in 1..(Len(h) - 1) : h[k].timestamp <= h[k + 1].timestamp

\* the history of an interaction is read after two turns with different
\* messages, made in different seconds
C4_Witness ==
    /\ response.handler = "history"
    /\ Len(response.body.messages) = 4
    /\ response.body.messages[1].content # response.body.messages[3].content
    /\ response.body.messages[1].timestamp < response.body.messages[3].timestamp

\* C5: the step that answers an upload with success adds exactly one row to
\* interactions; the row holds the request's intent and model and the
\* output reported, input_tokens = len(intent) // 4, output_tokens =
\* len(output) // 4 and estimated_cost = calculate_cost of the two.
C5_UploadCreatesOneInteraction ==
    [][\A p \in Procs :
          (handler[p] = "upload" /\ pc'[p] = "idle" /\ response'.status = 200)
          => /\ Len(interactions') = Len(interactions) + 1
             /\ SubSeq(interactions', 1, Len(interactions)) = interactions
             /\ LET r == interactions'[Len(interactions')]
                IN  /\ r.intent = GetOr(args[p].intent, DEFAULT_INTENT)
                    /\ r.model = GetOr(args[p].model, DEFAULT_MODEL)
                    /\ r.output = response'.body.output
                    /\ r.input_tokens = Len(r.intent) \div 4
                    /\ r.output_tokens = Len(r.output) \div 4
                    /\ r.estimated_cost =
                          calculate_cost(r.input_tokens, r.output_tokens, r.model)
                    /\ response'.body.tokens =
                          [input |-> r.input_tokens, output |-> r.output_tokens]
                    /\ response'.body.cost = r.estimated_cost]_vars

\* a second upload, for model moondream, has just been answered with success
C5_Witness ==
    /\ response.handler = "upload"
    /\ response.status = 200
    /\ response.args.model = <<"moondream">>
    /\ Len(interactions) = 2
    /\ interactions[2].output_tokens # interactions[2].input_tokens

\* interaction `id` is a row of `rows`
Exists(rows, id) == \E k \in 1..Len(rows) : rows[k].id = id

\* C6: a chat request with a non-empty message for an interaction id that
\* does not exist is answered 404 at once, with both tables and every open
\* transaction as they were; no chat request is ever in flight (at the
\* gateway or writing) for an id that is not in interactions.
C6_ChatUnknownIdNotFound ==
    [][/\ \A p \in Procs :
             handler'[p] = "chat" =>
                Exists(interactions', args'[p].interaction_id)
       /\ ( /\ response'.handler = "chat"
            /\ pc' = pc
            /\ Strip(response'.args.message) # <<>>
            /\ ~Exists(interactions, response'.args.interaction_id) )
          => /\ response'.status = 404
             /\ interactions' = interactions
             /\ chat_messages' = chat_messages
             /\ tx' = tx]_vars

\* a chat request for id 2 is answered 404 while interaction 1 exists
C6_Witness ==
    /\ response.handler = "chat"
    /\ response.status = 404
    /\ response.args.interaction_id = 2
    /\ Len(interactions) = 1

\* sums over the rows stored
TokensStored ==
    SeqSum([k \in 1..Len(interactions) |->
               interactions[k].input_tokens + interactions[k].output_tokens])
    + SeqSum([k \in 1..Len(chat_messages) |-> chat_messages[k].tokens])

CostStored ==
    SeqSum([k \in 1..Len(interactions) |-> interactions[k].estimated_cost])
    + SeqSum([k \in 1..Len(chat_messages) |-> chat_messages[k].cost])

\* C7: a statistics response whose count is the number of interactions
\* stored (no upload committed while it was computed) reports the sums of
\* the token and cost fields over the rows of both tables.
C7_StatsAreAFold ==
    (response.handler = "stats" /\ response.status = 200
        /\ response.body.total_interactions = Len(interactions))
    => /\ response.body.total_tokens = TokensStored
       /\ response.body.total_cost = CostStored

\* statistics are answered over one interaction and one chat turn
C7_Witness ==
    /\ response.handler = "stats"
    /\ response.status = 200
    /\ response.body.total_interactions = 1
    /\ Len(interactions) = 1
    /\ Len(chat_messages) = 2
    /\ SeqSum([k \in 1..Len(chat_messages) |-> chat_messages[k].tokens]) > 0

\* C8: a statistics request is always answered 200; over an empty store the
\* answer is 0 interactions, 0 tokens, 0 cost, and with interactions but no
\* chat message it is the interactions' own totals.
C8_StatsOnEmptyStore ==
    response.handler = "stats" =>
       /\ response.status = 200
       /\ (interactions = <<>> /\ chat_messages = <<>>) =>
             response.body = [total_interactions |-> 0, total_tokens |-> 0,
                              total_cost |-> 0]
       /\ (chat_messages = <<>>
             /\ response.body.total_interactions = Len(interactions)) =>
             /\ response.body.total_tokens =
                   SeqSum([k \in 1..Len(interactions) |->
                              interactions[k].input_tokens
                              + interactions[k].output_tokens])
             /\ response.body.total_cost =
                   SeqSum([k \in 1..Len(interactions) |->
                              interactions[k].estimated_cost])

\* statistics are answered over the empty store
C8_Witness ==
    /\ response.handler = "stats"
    /\ response.status = 200
    /\ interactions = <<>>
    /\ chat_messages = <<>>

\* C9: no step changes or removes the bytes stored under an existing name
\* of the uploads directory (every save call gets a name of its own).
C9_ArtifactNeverOverwritten ==
    [][\A f \in DOMAIN files :
          f \in DOMAIN files' /\ files'[f] = files[f]]_vars

\* C10: the prompt of an upload is the artifact path, a newline and the
\* instruction, with the grounding marker put before the instruction exactly
\* when the instruction starts neither with the marker nor, in any letter
\* case, with 'describe this image'.
C10_UploadPrompt ==
    \A p \in Procs :
       (handler[p] = "upload" /\ pc[p] \in {"invoking", "commit"}) =>
          LET intent == locals[p].intent
              path == UPLOAD_FOLDER \o <<"/">> \o locals[p].filename
              marked == /\ ~StartsWith(intent, GROUNDING)
                        /\ ~StartsWith(Lower(intent), Str_describe)
          IN  /\ intent = GetOr(args[p].intent, DEFAULT_INTENT)
              /\ locals[p].prompt =
                    path \o <<"\n">> \o (IF marked THEN GROUNDING ELSE <<>>)
                         \o intent

\* an upload whose instruction is 'DESCRIBE THIS IMAGE' is at the gateway
C10_Witness ==
    \E p \in Procs :
       /\ handler[p] = "upload"
       /\ pc[p] = "invoking"
       /\ locals[p].intent = Intent_upper
       /\ locals[p].prompt = Filepath(locals[p].filename) \o <<"\n">> \o Intent_upper

\* C11: every file of the uploads directory is the artifact of a stored
\* interaction or of an upload still in flight: an upload that failed leaves
\* nothing behind, its artifact included.
C11_FailedUploadLeavesNothing ==
    \A f \in DOMAIN files :
       \/ \E k \in 1..Len(interactions) : interactions[k].filename = f
       \/ \E p \in Procs : handler[p] = "upload" /\ locals[p].filename = f

\* C12: an upload without a file part or with an empty filename, and a chat
\* request whose message is empty or whitespace (whether or not its
\* interaction exists), is answered 400 at once and never gets in flight;
\* the step that answers 400 changes no file, row, transaction, lock or
\* thread.
C12_ValidationMutatesNothing ==
    [][/\ \A p \in Procs :
             /\ handler'[p] = "upload" =>
                   args'[p].has_file /\ args'[p].filename # <<>>
             /\ handler'[p] = "chat" =>
                   \E k \in 1..Len(args'[p].message) :
                      args'[p].message[k] \notin Whitespace
       /\ (response'.handler = "chat" /\ pc' = pc
             /\ \A k \in 1..Len(response'.args.message) :
                   response'.args.message[k] \in Whitespace)
          => response'.status = 400
       /\ (response'.handler = "upload" /\ pc' = pc) => response'.status = 400
       /\ response'.status = 400
          => /\ files' = files
             /\ interactions' = interactions
             /\ chat_messages' = chat_messages
             /\ tx' = tx
             /\ db_lock' = db_lock
             /\ pc' = pc /\ locals' = locals]_vars

\* a whitespace message for an interaction that does not exist is answered
\* 400 while an interaction and its artifact are stored
C12_Witness ==
    /\ response.handler = "chat"
    /\ response.status = 400
    /\ response.args.interaction_id = 2
    /\ Len(interactions) = 1
    /\ files # EmptyDir

\* C13: no step changes or removes a row of interactions or chat_messages:
\* every row stored before the step is stored after it, at the same place,
\* with every field as it was.
C13_AppendOnly ==
    [][/\ Len(interactions) <= Len(interactions')
       /\ SubSeq(interactions', 1, Len(interactions)) = interactions
       /\ Len(chat_messages) <= Len(chat_messages')
       /\ SubSeq(chat_messages', 1, Len(chat_messages)) = chat_messages]_vars

\* a chat turn has just been added to a store of two interactions
C13_Witness ==
    /\ response.handler = "chat"
    /\ response.status = 200
    /\ Len(interactions) = 2
    /\ Len(chat_messages) = 2

\* the stored interaction of a chat request
Stored(id) == interactions[CHOOSE k \in 1..Len(interactions) :
                              interactions[k].id = id]

\* C14: a chat turn in flight runs the model stored on its interaction with
\* the prompt <stored artifact path>, newline, <message> and nothing else;
\* every user row stored has tokens = len(content) // 4 and cost =
\* calculate_cost(tokens, 0, model), every assistant row tokens =
\* len(content) // 4 and cost = calculate_cost(0, tokens, model), for the
\* model stored on the interaction.
C14_ChatTurnEstimates ==
    /\ \A p \in Procs :
          handler[p] = "chat" =>
             /\ Exists(interactions, args[p].interaction_id)
             /\ locals[p].model = Stored(args[p].interaction_id).model
             /\ locals[p].prompt =
                   UPLOAD_FOLDER \o <<"/">>
                      \o Stored(args[p].interaction_id).filename
                      \o <<"\n">> \o Strip(args[p].message)
    /\ \A k \in 1..Len(chat_messages) :
          LET r == chat_messages[k]
              model == Stored(r.interaction_id).model
          IN  /\ r.tokens = Len(r.content) \div 4
              /\ r.role = "user" => r.cost = calculate_cost(r.tokens, 0, model)
              /\ r.role = "assistant" =>
                    r.cost = calculate_cost(0, r.tokens, model)

\* a turn on a moondream interaction is stored, both rows at a cost
C14_Witness ==
    /\ Len(chat_messages) = 2
    /\ Stored(chat_messages[1].interaction_id).model = "moondream"
    /\ chat_messages[1].cost > 0
    /\ chat_messages[2].cost > 0

\* C15: a request waiting for its subprocess holds neither the write lock
\* nor an open transaction; meanwhile the other thread can take its next
\* step whatever it is doing: accept an upload, insert its rows, commit,
\* run the second read of a stats request.
C15_GatewayHoldsNoLock ==
    \A p \in Procs :
       pc[p] = "invoking" =>
          /\ db_lock # p
          /\ tx[p] = <<>>
          /\ \A q \in Procs \ {p} :
                /\ (pc[q] = "idle" /\ dispatched < MaxRequests) =>
                      ENABLED UploadSave(q)
                /\ pc[q] = "invoking" =>
                      ENABLED (UploadInsert(q) \/ ChatInsertUser(q))
                /\ pc[q] = "insert_assistant" => ENABLED ChatInsertAssistant(q)
                /\ pc[q] = "commit" => ENABLED (UploadCommit(q) \/ ChatCommit(q))
                /\ pc[q] = "stats_chat" => ENABLED GetStatsChat(q)

\* an upload has just been committed and answered while a chat request is
\* waiting for its subprocess
C15_Witness ==
    /\ response.handler = "upload"
    /\ response.status = 200
    /\ \E p \in Procs : pc[p] = "invoking" /\ handler[p] = "chat"

\* C16: the list of interactions is most recent first: of any two entries
\* the one listed first has the larger id, also when both were created
\* within the same second.
C16_ResultsMostRecentFirst ==
    response.handler = "results" =>
       \A j, k \in 1..Len(response.body.results) :
          j < k => response.body.results[j].id > response.body.results[k].id

\* the ways a gateway invocation fails
GatewayFailures ==
    {r \in GatewayResults : r.kind # "completed" \/ r.returncode # 0}

\* what view function `h` answers to the failure `r`
FailureOutcome(h, r) ==
    IF r.kind = "completed"
    THEN Error(500, "Ollama error: ", r.stderr)
    ELSE IF h = "upload" THEN UploadExcept(r.kind) ELSE ChatExcept(r.kind)

\* C17: in the upload and in the chat flow the four gateway failure modes
\* (not found, timeout, non-zero exit with the process's stderr, any other
\* exception) have four different answers, all with status 500; a request
\* that leaves its gateway step with an answer gets the message of one of
\* them (a failed first INSERT is answered like any other exception), and no
\* request enters the gateway step except when it is accepted: the gateway
\* is invoked once per request.
C17_GatewayFailuresDistinct ==
    [][\A p \in Procs :
          /\ pc'[p] = "invoking" =>
                /\ pc[p] \in {"idle", "invoking"}
                /\ \A h \in {"upload", "chat"} :
                      \A r1, r2 \in GatewayFailures :
                         /\ FailureOutcome(h, r1).status = 500
                         /\ r1 # r2 =>
                               FailureOutcome(h, r1).body.error
                                  # FailureOutcome(h, r2).body.error
          /\ (pc[p] = "invoking" /\ pc'[p] = "idle") =>
                /\ response'.status = 500
                /\ \E r \in GatewayFailures :
                      /\ response'.body.error
                            = FailureOutcome(handler[p], r).body.error
                      /\ r.kind = "completed" =>
                            response'.body.detail = r.stderr
          /\ (pc[p] = "invoking" /\ pc'[p] # "invoking") =>
                \/ pc'[p] = "idle" /\ handler'[p] = "none"
                \/ pc'[p] \in Written /\ tx'[p] # <<>>]_vars

\* an upload has just been answered that ollama was not found
C17_Witness ==
    /\ response.handler = "upload"
    /\ response.status = 500
    /\ response.body.error =
          "Ollama not found. Please ensure Ollama is installed and in PATH"

\* C18: right after a successful upload, the list of interactions holds a
\* row with the id assigned, a creation timestamp, the artifact reference,
\* output, token counts and cost the upload response reported, and the
\* intent and model of the request.
C18_UploadRoundTrip ==
    (response.handler = "upload" /\ response.status = 200) =>
       \E k \in 1..Len(SelectResults(interactions)) :
          LET r == SelectResults(interactions)[k]
          IN  /\ r.id = Len(interactions)
              /\ r.timestamp \in 0..Seconds(now)
              /\ r.filename = response.body.filename
              /\ r.intent = GetOr(response.args.intent, DEFAULT_INTENT)
              /\ r.model = GetOr(response.args.model, DEFAULT_MODEL)
              /\ r.output = response.body.output
              /\ r.input_tokens = response.body.tokens.input
              /\ r.output_tokens = response.body.tokens.output
              /\ r.estimated_cost = response.body.cost

\* an upload with the default intent and model has just succeeded, its
\* token counts different from each other
C18_Witness ==
    /\ response.handler = "upload"
    /\ response.status = 200
    /\ response.args.intent = <<>>
    /\ response.args.model = <<>>
    /\ response.body.tokens.input # response.body.tokens.output

\* C19: a chat history read is answered 200 and changes no file, row,
\* transaction, lock or thread; for an id without interaction its message
\* list is empty, while a chat message posted to such an id is answered 404.
C19_HistoryOfUnknownId ==
    [][/\ response'.handler = "history" =>
             /\ response'.status = 200
             /\ ~Exists(interactions, response'.args.interaction_id) =>
                   response'.body.messages = <<>>
             /\ files' = files
             /\ interactions' = interactions
             /\ chat_messages' = chat_messages
             /\ tx' = tx
             /\ db_lock' = db_lock
             /\ pc' = pc /\ locals' = locals
       /\ (response'.handler = "chat" /\ response'.status # 400
             /\ ~Exists(interactions, response'.args.interaction_id))
          => response'.status = 404]_vars

\* the history of id 2 is read and is empty while the one interaction
\* stored has a chat turn
C19_Witness ==
    /\ response.handler = "history"
    /\ response.args.interaction_id = 2
    /\ response.body.messages = <<>>
    /\ Len(interactions) = 1
    /\ Len(chat_messages) = 2

\* C20: in every state, an upload at the gateway or writing has its
\* artifact stored; a chat request at the gateway or writing has its
\* interaction stored; only a request whose subprocess returned exit status
\* 0 has rows written, and it is past the gateway; an upload answered with
\* success has its row committed, a chat turn answered with success has
\* both rows committed.
C20_FlowOrder ==
    /\ \A p \in Procs :
          /\ handler[p] = "upload" =>
                /\ pc[p] \in {"invoking", "commit"}
                /\ locals[p].filename \in DOMAIN files
          /\ handler[p] = "chat" =>
                /\ pc[p] \in {"invoking", "insert_assistant", "commit"}
                /\ Exists(interactions, args[p].interaction_id)
          /\ handler[p] = "stats" => pc[p] = "stats_chat"
          /\ handler[p] = "none" => pc[p] = "idle"
          /\ tx[p] # <<>> =>
                /\ pc[p] \in Written
                /\ locals[p].result.kind = "completed"
                /\ locals[p].result.returncode = 0
          /\ pc[p] \in {"idle", "invoking", "stats_chat"} => tx[p] = <<>>
          /\ pc[p] = "insert_assistant" => Len(tx[p]) = 1
          /\ pc[p] = "commit" =>
                Len(tx[p]) = IF handler[p] = "chat" THEN 2 ELSE 1
    /\ (response.handler = "upload" /\ response.status = 200) =>
          /\ interactions # <<>>
          /\ interactions[Len(interactions)].filename = response.body.filename
          /\ interactions[Len(interactions)].output = response.body.output
    /\ (response.handler = "chat" /\ response.status = 200) =>
          /\ Len(chat_messages) >= 2
          /\ chat_messages[Len(chat_messages) - 1].role = "user"
          /\ chat_messages[Len(chat_messages) - 1].content
                = Strip(response.args.message)
          /\ chat_messages[Len(chat_messages)].role = "assistant"
          /\ chat_messages[Len(chat_messages)].content = response.body.response

\* one upload has inserted its row and not committed it, another is at the
\* gateway with its artifact stored
C20_Witness ==
    \E p, q \in Procs :
       /\ handler[p] = "upload" /\ pc[p] = "commit" /\ Len(tx[p]) = 1
       /\ handler[q] = "upload" /\ pc[q] = "invoking"
       /\ locals[q].filename \in DOMAIN files
       /\ interactions = <<>>

\* C21: every row of chat_messages, committed or still in a transaction,
\* names the id of a stored interaction and has role user or assistant.
C21_ReferentialIntegrity ==
    /\ \A k \in 1..Len(chat_messages) :
          /\ Exists(interactions, chat_messages[k].interaction_id)
          /\ chat_messages[k].role \in {"user", "assistant"}
    /\ \A p \in Procs :
          handler[p] = "chat" =>
             \A k \in 1..Len(tx[p]) :
                /\ Exists(interactions, tx[p][k].interaction_id)
                /\ tx[p][k].role \in {"user", "assistant"}

\* a turn on the second of two interactions is stored and its history read
C21_Witness ==
    /\ response.handler = "history"
    /\ Len(interactions) = 2
    /\ Len(chat_messages) = 2
    /\ chat_messages[1].interaction_id = 2

\* C22 as stated: an upload without an intent is not processed, no upload
\* in flight lacks an intent and no upload without one is answered success.
C22_IntentRequired ==
    /\ \A p \in Procs : handler[p] = "upload" => args[p].intent # <<>>
    /\ (response.handler = "upload" /\ response.args.intent = <<>>) =>
          response.status = 400

\* C22, amended: only the file part and its filename are validated; an
\* upload without an intent is processed with the intent 'OCR this image.':
\* its artifact is stored, the prompt carries that intent and the
\* interaction it creates stores it.
C22_IntentDefaults ==
    /\ \A p \in Procs :
          handler[p] = "upload" =>
             /\ args[p].has_file /\ args[p].filename # <<>>
             /\ locals[p].filename \in DOMAIN files
             /\ args[p].intent = <<>> =>
                   /\ locals[p].intent =
                         <<"O","C","R"," ","t","h","i","s"," ",
                           "i","m","a","g","e",".">>
                   /\ locals[p].prompt =
                         Filepath(locals[p].filename) \o <<"\n">>
                            \o GROUNDING \o locals[p].intent
             /\ args[p].intent # <<>> => locals[p].intent = args[p].intent[1]
    /\ (response.handler = "upload" /\ response.status = 200
          /\ response.args.intent = <<>>) =>
          interactions[Len(interactions)].intent =
             <<"O","C","R"," ","t","h","i","s"," ","i","m","a","g","e",".">>

\* an upload without an intent is at the gateway, its artifact stored
C22_Witness ==
    \E p \in Procs :
       /\ handler[p] = "upload"
       /\ pc[p] = "invoking"
       /\ args[p].intent = <<>>
       /\ locals[p].filename \in DOMAIN files

\* C23: a statistics response never counts tokens or cost of a chat message
\* whose interaction its count does not include: with n the count reported,
\* the totals are at most the sums over the first n interactions and over
\* the chat messages of those interactions.
C23_StatsSnapshot ==
    (response.handler = "stats" /\ response.status = 200) =>
       LET n == response.body.total_interactions
           mine == SelectSeq(chat_messages, LAMBDA r : r.interaction_id <= n)
       IN  /\ n <= Len(interactions)
           /\ response.body.total_tokens <=
                 SeqSum([k \in 1..n |-> interactions[k].input_tokens
                                         + interactions[k].output_tokens])
                 + SeqSum([k \in 1..Len(mine) |-> mine[k].tokens])
           /\ response.body.total_cost <=
                 SeqSum([k \in 1..n |-> interactions[k].estimated_cost])
                 + SeqSum([k \in 1..Len(mine) |-> mine[k].cost])

\* C24: in both tables the ids, in the order the rows were committed, are
\* strictly increasing (so unique and never reused), and every user row is
\* directly followed by the assistant row of its turn, whose id is the user
\* row's id plus one; the same holds for the rows of an open transaction.
C24_IdsIncrease ==
    /\ \A j, k \in 1..Len(interactions) :
          j < k => interactions[j].id < interactions[k].id
    /\ \A j, k \in 1..Len(chat_messages) :
          j < k => chat_messages[j].id < chat_messages[k].id
    /\ \A k \in 1..Len(chat_messages) :
          chat_messages[k].role = "user" =>
             /\ k < Len(chat_messages)
             /\ chat_messages[k + 1].role = "assistant"
             /\ chat_messages[k + 1].interaction_id
                   = chat_messages[k].interaction_id
             /\ chat_messages[k + 1].id = chat_messages[k].id + 1
    /\ \A p \in Procs :
          LET table == IF handler[p] = "chat" THEN chat_messages
                       ELSE interactions
          IN  \A k \in 1..Len(tx[p]) :
                 /\ \A j \in 1..Len(table) : table[j].id < tx[p][k].id
                 /\ k > 1 => tx[p][k].id = tx[p][k - 1].id + 1

\* the second of two turns has just been committed, its rows with ids 3, 4
C24_Witness ==
    /\ response.handler = "chat"
    /\ response.status = 200
    /\ Len(chat_messages) = 4
    /\ chat_messages[3].id = 3
    /\ chat_messages[4].id = 4

\* C25: estimate_tokens(text) is floor(len(text) / 4): never negative, the
\* same for the same text and never smaller for a longer text;
\* calculate_cost is never negative for token counts that are not, and for a
\* model without price entry it is the cost at the 'deepseek-ocr' prices,
\* 0.0001 USD per 1000 tokens on either side (10 units of 1e-8 USD a token).
C25_Estimator ==
    /\ response.handler = "estimate_tokens" =>
          /\ response.body.tokens >= 0
          /\ 4 * response.body.tokens <= Len(response.args.text)
          /\ Len(response.args.text) < 4 * response.body.tokens + 4
          /\ response.args.text = response.args.other =>
                response.body.tokens = response.body.other_tokens
          /\ Len(response.args.text) <= Len(response.args.other) =>
                response.body.tokens <= response.body.other_tokens
    /\ response.handler = "calculate_cost" =>
          /\ response.status = 200
          /\ response.body.cost >= 0
          /\ response.args.model \notin {"deepseek-ocr", "llava", "moondream"}
                => response.body.cost = 10 * response.args.input_tokens
                                        + 10 * response.args.output_tokens

\* the cost of 1 input and 2 output tokens of an unknown model is computed
C25_Witness ==
    /\ response.handler = "calculate_cost"
    /\ response.args.model = "mystery"
    /\ response.args.input_tokens = 1
    /\ response.args.output_tokens = 2
    /\ response.body.cost = 30

\* C26: a statistics read that starts after another was answered reports no
\* smaller total_interactions and no smaller total_tokens than that one; the
\* count a read reports is the number of interactions stored when it reads
\* them, and that number grows by one in the step that answers an upload
\* with success and stays as it is in every other step.
C26_StatsNeverDecrease ==
    [][/\ \A p \in Procs :
             /\ (pc[p] = "stats_chat" /\ pc'[p] = "idle") =>
                   /\ response'.body.total_interactions
                         = locals[p].interaction_row.total_interactions
                   /\ locals[p].prior # <<>> =>
                         /\ response'.body.total_interactions
                               >= locals[p].prior[1].total_interactions
                         /\ response'.body.total_tokens
                               >= locals[p].prior[1].total_tokens
             /\ (pc[p] = "idle" /\ pc'[p] = "stats_chat") =>
                   /\ locals'[p].interaction_row.total_interactions
                         = Len(interactions)
                   /\ locals'[p].prior = reported
       /\ Len(interactions') =
             IF response'.handler = "upload" /\ response'.status = 200
             THEN Len(interactions) + 1
             ELSE Len(interactions)]_vars

\* a statistics read that started after one answered 0 interactions has
\* counted 1
C26_Witness ==
    \E p \in Procs :
       /\ pc[p] = "stats_chat"
       /\ locals[p].prior # <<>>
       /\ locals[p].prior[1].total_interactions = 0
       /\ locals[p].interaction_row.total_interactions = 1

====
